---- MODULE Spec2Model ----
(***************************************************************************)
(* Model of the compact object-representation layer:                       *)
(*   - CompressedKlassPointers (narrow Klass codec),                       *)
(*     src/hotspot/share/oops/compressedKlass.inline.hpp                   *)
(*   - markWord (packed object header),                                    *)
(*     src/hotspot/share/oops/markWord.hpp                                 *)
(*   - KlassInfoLUT (lookup table keyed by narrowKlass),                   *)
(*     src/hotspot/share/oops/klassInfoLUT.cpp                             *)
(*                                                                         *)
(* A machine word (uintptr_t, size_t, address) is modelled bit-exactly as  *)
(* the set of the positions of its 1-bits, a subset of 0..BitsPerWord-1,   *)
(* so that &, |, ~, ^, <<, >>, + and - are the 64-bit operations of the    *)
(* source, wrap-around included.                                           *)
(***************************************************************************)
EXTENDS Integers, FiniteSets, Sequences, TLC

(***************************************************************************)
(* Machine words                                                           *)
(***************************************************************************)
BitsPerWord == 64
WordBits == 0 .. (BitsPerWord - 1)

Zero == {}
\* the word of a small natural number n < 2^31
FromNat(n) == {i \in 0 .. 30 : (n \div (2 ^ i)) % 2 = 1}
\* the natural number of a word all of whose 1-bits are below bit 31
RECURSIVE ToNat(_)
ToNat(w) == IF w = {} THEN 0
            ELSE LET i == CHOOSE x \in w : TRUE IN (2 ^ i) + ToNat(w \ {i})

BitAnd(a, b) == a \cap b
BitOr(a, b) == a \cup b
BitXor(a, b) == (a \ b) \cup (b \ a)
BitNot(a) == WordBits \ a
ShiftLeft(a, n) == {i + n : i \in a} \cap WordBits
ShiftRight(a, n) == {i - n : i \in {j \in a : j >= n}}
\* a + b modulo 2^BitsPerWord: bit i of the sum is a_i xor b_i xor carry_i, and
\* there is a carry into bit i iff some lower bit j generates one (a_j and b_j)
\* and every bit between j and i propagates it (a_k or b_k).
CarryInto(a, b, i) ==
  \E j \in {x \in a \cap b : x < i} : \A k \in (j + 1) .. (i - 1) : k \in a \cup b
Plus(a, b) ==
  {i \in WordBits : ((i \in a) # (i \in b)) # CarryInto(a, b, i)}
\* a - b modulo 2^BitsPerWord: bit i of the difference is a_i xor b_i xor
\* borrow_i, and there is a borrow from bit i iff some lower bit j generates one
\* (b_j and not a_j) and no bit between j and i absorbs it (a_k and not b_k).
BorrowFrom(a, b, i) ==
  \E j \in {x \in b \ a : x < i} : \A k \in (j + 1) .. (i - 1) : k \notin a \ b
Minus(a, b) ==
  {i \in WordBits : ((i \in a) # (i \in b)) # BorrowFrom(a, b, i)}
\* unsigned comparison
Below(a, b) == \E i \in b \ a : \A j \in a \ b : j < i
AtLeast(a, b) == ~Below(a, b)
\* (uint32_t) x
Truncate32(a) == a \cap (0 .. 31)

\* utilities/globalDefinitions.hpp helpers, as the source uses them
right_n_bits(n) == 0 .. (n - 1)
nth_bit(n) == {n} \cap WordBits
mask_bits(x, m) == BitAnd(x, m)
MAX2(a, b) == IF a > b THEN a ELSE b
\* is_aligned(p, nth_bit(log_alignment))
is_aligned(p, log_alignment) == p \cap right_n_bits(log_alignment) = {}
\* pointer_delta(left, right, 1): byte distance as size_t
pointer_delta(left, right) == Minus(left, right)

(***************************************************************************)
(* State                                                                   *)
(***************************************************************************)
VARIABLES
  \* CompressedKlassPointers: process-wide encoding configuration
  _base,                            \* address
  _shift,                           \* int
  _range,                           \* size_t: size of the Klass range
  _lowest_valid_narrow_klass_id,    \* narrowKlass
  _highest_valid_narrow_klass_id,   \* narrowKlass
  \* the codec call made last: its arguments, the value the arithmetic yields
  \* and the assertion a debug (ASSERT) build trips, "" when none
  call,
  \* process-wide switches read by markWord
  UseCompactObjectHeaders,          \* bool
  LockingMode,                      \* LM_LEGACY or LM_LIGHTWEIGHT
  UseObjectMonitorTable,            \* bool
  \* the header word of one object (markWord::_value)
  mark,
  \* the header before the operation applied last, and that operation: its
  \* name, its argument and the assertion a debug build trips on it
  mark_prev,
  mark_op,
  \* the header the object was created with
  mark_init,
  \* age bookkeeping of the caller: the age given by the last set_age (0 for
  \* a fresh header) and the number of incr_age calls made since
  base_age,
  incr_count,
  \* KlassInfoLUT: the table (uint32_t* _entries, <<>> for nullptr), the
  \* registration counters of a debug build, the kind of the Klass registered
  \* last at each Klass address, and the table operation made last
  _entries,
  counter_registered,
  descriptors,
  klut_op,
  \* the register_klass call a thread is in the middle of: where it stands,
  \* its Klass, the narrowKlass and the entry it computed
  registering

codec_vars == <<_base, _shift, _range, _lowest_valid_narrow_klass_id,
                _highest_valid_narrow_klass_id>>
flag_vars == <<UseCompactObjectHeaders, LockingMode, UseObjectMonitorTable>>
mark_vars == <<mark, mark_prev, mark_op, mark_init, base_age, incr_count>>
klut_vars == <<_entries, counter_registered, descriptors, klut_op, registering>>

\* the values of the parts of the state a specification does not use
NoOp == [name |-> "none", arg |-> {}, violation |-> ""]
CodecIdle ==
  /\ _base = {}
  /\ _shift = 0
  /\ _range = {}
  /\ _lowest_valid_narrow_klass_id = {}
  /\ _highest_valid_narrow_klass_id = {}
  /\ call = [op |-> "none", k |-> {}, base |-> {}, shift |-> 0,
             nk |-> {}, out |-> {}, violation |-> ""]
FlagsIdle ==
  /\ UseCompactObjectHeaders = FALSE
  /\ LockingMode = "LM_LIGHTWEIGHT"
  /\ UseObjectMonitorTable = FALSE
MarkIdle ==
  /\ mark = {}
  /\ mark_prev = {}
  /\ mark_op = NoOp
  /\ mark_init = {}
  /\ base_age = 0
  /\ incr_count = 0
KlutIdle ==
  /\ _entries = <<>>
  /\ counter_registered = <<>>
  /\ descriptors = <<>>
  /\ klut_op = <<>>
  /\ registering = <<>>

(***************************************************************************)
(* Bounds of the model                                                     *)
(***************************************************************************)
\* narrow_klass_pointer_bits(): a runtime-configured width (at most 22 when the
\* lookup table is in use); scaled down so that the table can be enumerated
NarrowKlassPointerBits == 4
\* shifts 0 .. MaxShift are explored
MaxShift == 4

(***************************************************************************)
(* CompressedKlassPointers                                                 *)
(***************************************************************************)
narrow_klass_pointer_bits == NarrowKlassPointerBits
nullptr == Zero
is_null(v) == v = Zero
NoViolation == ""
\* the first assertion of a sequence of checks that fails
RECURSIVE FirstViolation(_)
FirstViolation(checks) ==
  IF checks = <<>> THEN NoViolation
  ELSE IF Head(checks) # NoViolation THEN Head(checks)
  ELSE FirstViolation(Tail(checks))
Checked(v, checks) == [val |-> v, violation |-> FirstViolation(checks)]

decode_not_null_without_asserts(v, narrow_base_base, shift) ==
  Plus(narrow_base_base, ShiftLeft(v, shift))

\* mutant: the shift is forgotten
encode_without_shift(k, narrow_base, shift) ==
  Truncate32(pointer_delta(k, narrow_base))
\* mutant: the shift is one too large
encode_shift_off_by_one(k, narrow_base, shift) ==
  Truncate32(ShiftRight(pointer_delta(k, narrow_base), shift + 1))
encode_not_null_without_asserts(k, narrow_base, shift) ==
  Truncate32(ShiftRight(pointer_delta(k, narrow_base), shift))

check_valid_klass(k, base, shift) ==
  LET log_alignment == MAX2(3, shift)
      encoding_end == Plus(base, nth_bit(narrow_klass_pointer_bits + shift))
  IN  IF ~is_aligned(k, log_alignment) THEN "Klass not properly aligned"
      ELSE IF ~(AtLeast(k, base) /\ Below(k, encoding_end))
           THEN "Klass falls outside of the valid encoding range"
      ELSE NoViolation

\* check_valid_klass(const Klass* k): against the process-wide base and shift
check_valid_klass_k(k) ==
  LET klassrange_end == Plus(_base, _range)
  IN  FirstViolation(<<
        check_valid_klass(k, _base, _shift),
        IF ~Below(k, klassrange_end)
          THEN "Klass falls outside of the valid klass range" ELSE NoViolation >>)

check_valid_narrow_klass_id(nk) ==
  LET nk_mask == BitNot(right_n_bits(narrow_klass_pointer_bits))
  IN  IF BitAnd(nk, nk_mask) # Zero THEN "narrow klass id bit spillover"
      ELSE IF ~(AtLeast(nk, _lowest_valid_narrow_klass_id)
                /\ AtLeast(_highest_valid_narrow_klass_id, nk))
           THEN "narrowKlass ID out of range"
      ELSE NoViolation

decode_not_null(v, narrow_base, shift) ==
  LET result == decode_not_null_without_asserts(v, narrow_base, shift)
  IN  Checked(result, <<
        IF is_null(v) THEN "narrow klass value can never be zero" ELSE NoViolation,
        check_valid_klass(result, narrow_base, shift) >>)

encode_not_null(v, narrow_base, shift) ==
  LET result == encode_not_null_without_asserts(v, narrow_base, shift)
      back == decode_not_null(result, narrow_base, shift)
  IN  Checked(result, <<
        IF is_null(v) THEN "klass value can never be zero" ELSE NoViolation,
        check_valid_klass_k(v),
        back.violation,
        IF back.val # v THEN "reversibility" ELSE NoViolation >>)

\* decode_not_null(narrowKlass v)
decode_not_null_v(v) ==
  LET r == decode_not_null(v, _base, _shift)
  IN  Checked(r.val, << check_valid_narrow_klass_id(v), r.violation >>)

\* mutant: the null test is forgotten
decode_without_null_test(v) == decode_not_null_v(v)
\* decode(narrowKlass v)
decode(v) == IF is_null(v) THEN Checked(nullptr, <<>>) ELSE decode_not_null_v(v)

\* decode_without_asserts(narrowKlass v)
decode_without_asserts(v) ==
  IF is_null(v) THEN nullptr ELSE decode_not_null_without_asserts(v, _base, _shift)

\* encode_not_null(Klass* v)
encode_not_null_k(v) ==
  LET nk == encode_not_null(v, _base, _shift)
  IN  Checked(nk.val, << nk.violation, check_valid_narrow_klass_id(nk.val) >>)

\* encode(Klass* v)
encode(v) == IF is_null(v) THEN Checked(Zero, <<>>) ELSE encode_not_null_k(v)

(***************************************************************************)
(* markWord: constants                                                     *)
(***************************************************************************)
age_bits == 4
lock_bits == 2
self_fwd_bits == 1
max_hash_bits == BitsPerWord - age_bits - lock_bits - self_fwd_bits
hash_bits == IF max_hash_bits > 31 THEN 31 ELSE max_hash_bits
unused_gap_bits == 4
hashctrl_bits == 2

lock_shift == 0
self_fwd_shift == lock_shift + lock_bits
age_shift == self_fwd_shift + self_fwd_bits
hash_shift == age_shift + age_bits + unused_gap_bits
hashctrl_shift == age_shift + age_bits + unused_gap_bits

lock_mask == right_n_bits(lock_bits)
lock_mask_in_place == ShiftLeft(lock_mask, lock_shift)
self_fwd_mask == right_n_bits(self_fwd_bits)
self_fwd_mask_in_place == ShiftLeft(self_fwd_mask, self_fwd_shift)
age_mask == right_n_bits(age_bits)
age_mask_in_place == ShiftLeft(age_mask, age_shift)
hash_mask == right_n_bits(hash_bits)
hash_mask_in_place == ShiftLeft(hash_mask, hash_shift)
hashctrl_mask == right_n_bits(hashctrl_bits)
hashctrl_mask_in_place == ShiftLeft(hashctrl_mask, hashctrl_shift)
hashctrl_hashed_mask_in_place == ShiftLeft(FromNat(1), hashctrl_shift)
hashctrl_expanded_mask_in_place == ShiftLeft(FromNat(2), hashctrl_shift)

klass_shift == hashctrl_shift + hashctrl_bits
klass_bits == 19
klass_mask == right_n_bits(klass_bits)
klass_mask_in_place == ShiftLeft(klass_mask, klass_shift)

locked_value == FromNat(0)
unlocked_value == FromNat(1)
monitor_value == FromNat(2)
marked_value == FromNat(3)
forward_expanded_value == FromNat(7)

no_hash == FromNat(0)
no_hash_in_place == ShiftLeft(no_hash, hash_shift)
no_lock_in_place == unlocked_value

max_age == ToNat(age_mask)

LM_LEGACY == "LM_LEGACY"
LM_LIGHTWEIGHT == "LM_LIGHTWEIGHT"

(***************************************************************************)
(* markWord: accessors and mutators. A markWord is its _value; m is the     *)
(* receiver. An operator named X_assert gives the assertion X trips in a   *)
(* debug build ("" when none); X itself is what the code computes.         *)
(***************************************************************************)
zero == Zero

is_locked(m) == mask_bits(m, lock_mask_in_place) # unlocked_value
is_unlocked(m) == mask_bits(m, lock_mask_in_place) = unlocked_value
\* mutant: the self-forward bit is ignored
is_marked_lock_bits_only(m) == mask_bits(m, lock_mask_in_place) = marked_value
is_marked(m) ==
  Below(monitor_value, BitAnd(m, BitOr(self_fwd_mask_in_place, lock_mask_in_place)))
is_forwarded(m) ==
  AtLeast(mask_bits(m, BitOr(lock_mask_in_place, self_fwd_mask_in_place)), marked_value)
is_neutral(m) == mask_bits(m, lock_mask_in_place) = unlocked_value

\* mutant: the self-forward bit is left out of the test
set_forward_expanded_assert_lock_field(m) ==
  IF BitAnd(m, lock_mask_in_place) = marked_value THEN NoViolation
  ELSE "must be normal-forwarded here"
set_forward_expanded_assert(m) ==
  IF BitAnd(m, BitOr(lock_mask_in_place, self_fwd_mask_in_place)) = marked_value
  THEN NoViolation ELSE "must be normal-forwarded here"
set_forward_expanded(m) == BitOr(m, forward_expanded_value)
is_forward_expanded(m) ==
  BitAnd(m, BitOr(lock_mask_in_place, self_fwd_mask_in_place)) = forward_expanded_value

is_being_inflated(m) == m = Zero
INFLATING == zero

\* mutant: the unlocked bit is flipped rather than set
set_unlocked_xor(m) == BitXor(m, unlocked_value)
set_unlocked(m) == BitOr(m, unlocked_value)
has_locker_assert(m) ==
  IF LockingMode = LM_LEGACY THEN NoViolation
  ELSE "should only be called with legacy stack locking"
has_locker(m) == BitAnd(m, lock_mask_in_place) = locked_value
\* locker(): assert(has_locker(), "check"), which runs has_locker's own assert
locker_assert(m) ==
  FirstViolation(<< has_locker_assert(m),
                    IF has_locker(m) THEN NoViolation ELSE "check" >>)
locker(m) == m

is_fast_locked_assert(m) ==
  IF LockingMode = LM_LIGHTWEIGHT THEN NoViolation
  ELSE "should only be called with new lightweight locking"
is_fast_locked(m) == BitAnd(m, lock_mask_in_place) = locked_value
set_fast_locked(m) == BitAnd(m, BitNot(lock_mask_in_place))

has_monitor(m) == BitAnd(m, lock_mask_in_place) = monitor_value
\* mutant: the test of the lock field is left out
monitor_assert_table_only(m) ==
  IF ~UseObjectMonitorTable THEN NoViolation
  ELSE "Lightweight locking with OM table does not use markWord for monitors"
monitor_assert(m) ==
  FirstViolation(<<
    IF has_monitor(m) THEN NoViolation ELSE "check",
    IF ~UseObjectMonitorTable THEN NoViolation
    ELSE "Lightweight locking with OM table does not use markWord for monitors" >>)
monitor(m) == BitXor(m, monitor_value)

copy_set_hash_assert(m, hash) ==
  IF ~UseCompactObjectHeaders THEN NoViolation ELSE "Do not use with compact i-hash"
copy_set_hash(m, hash) ==
  LET tmp == BitAnd(m, BitNot(hash_mask_in_place))
  IN  BitOr(tmp, ShiftLeft(BitAnd(hash, hash_mask), hash_shift))

unused_mark == marked_value
from_pointer(ptr) == ptr
encode_monitor_assert(monitor_ptr) ==
  IF ~UseObjectMonitorTable THEN NoViolation
  ELSE "Lightweight locking with OM table does not use markWord for monitors"
\* encode(ObjectMonitor* monitor)
encode_monitor(monitor_ptr) == BitOr(monitor_ptr, monitor_value)

\* mutant: monitor_value is or-ed in without clearing the lock field first
set_has_monitor_or(m) == BitOr(m, monitor_value)
set_has_monitor(m) == BitOr(BitAnd(m, BitNot(lock_mask_in_place)), monitor_value)

clear_lock_bits(m) == BitAnd(m, BitNot(BitOr(lock_mask_in_place, self_fwd_mask_in_place)))

set_marked(m) == BitOr(BitAnd(m, BitNot(lock_mask_in_place)), marked_value)
set_unmarked(m) == BitOr(BitAnd(m, BitNot(lock_mask_in_place)), unlocked_value)

age(m) == ToNat(mask_bits(ShiftRight(m, age_shift), age_mask))
set_age_assert(m, v) ==
  IF BitAnd(FromNat(v), BitNot(age_mask)) = Zero THEN NoViolation
  ELSE "shouldn't overflow age field"
\* mutant: the age is shifted to the self-forward bit's position
set_age_wrong_shift(m, v) ==
  BitOr(BitAnd(m, BitNot(age_mask_in_place)),
        ShiftLeft(BitAnd(FromNat(v), age_mask), self_fwd_shift))
set_age(m, v) ==
  BitOr(BitAnd(m, BitNot(age_mask_in_place)),
        ShiftLeft(BitAnd(FromNat(v), age_mask), age_shift))
\* mutant: the age is incremented without the test for max_age
incr_age_unchecked(m) == set_age(m, age(m) + 1)
incr_age(m) == IF age(m) = max_age THEN m ELSE set_age(m, age(m) + 1)

hash_assert(m) ==
  IF ~UseCompactObjectHeaders THEN NoViolation ELSE "only without compact i-hash"
hash(m) == mask_bits(ShiftRight(m, hash_shift), hash_mask)

compact_only_assert ==
  IF UseCompactObjectHeaders THEN NoViolation ELSE "only with compact i-hash"
is_hashed_not_expanded(m) ==
  BitAnd(m, hashctrl_mask_in_place) = hashctrl_hashed_mask_in_place
set_hashed_not_expanded(m) ==
  BitOr(BitAnd(m, BitNot(hashctrl_mask_in_place)), hashctrl_hashed_mask_in_place)
is_hashed_expanded(m) ==
  BitAnd(m, hashctrl_mask_in_place)
    = BitOr(hashctrl_hashed_mask_in_place, hashctrl_expanded_mask_in_place)
\* mutant: only the expanded bit is set, as if the header were hashed already
set_hashed_expanded_or(m) == BitOr(m, hashctrl_expanded_mask_in_place)
set_hashed_expanded(m) ==
  BitOr(BitAnd(m, BitNot(hashctrl_mask_in_place)),
        BitOr(hashctrl_hashed_mask_in_place, hashctrl_expanded_mask_in_place))
is_not_hashed_expanded(m) ==
  BitAnd(m, hashctrl_mask_in_place) = hashctrl_expanded_mask_in_place
set_not_hashed_expanded(m) ==
  BitOr(BitAnd(m, BitNot(hashctrl_mask_in_place)), hashctrl_expanded_mask_in_place)
is_expanded(m) == BitAnd(m, hashctrl_expanded_mask_in_place) # Zero
is_hashed(m) == BitAnd(m, hashctrl_hashed_mask_in_place) # Zero

\* has_no_hash calls is_hashed() with compact headers and hash() without
has_no_hash_assert(m) ==
  IF UseCompactObjectHeaders THEN compact_only_assert ELSE hash_assert(m)
has_no_hash(m) ==
  IF UseCompactObjectHeaders THEN ~is_hashed(m) ELSE hash(m) = no_hash

copy_hashctrl_from(m, other) ==
  IF UseCompactObjectHeaders
  THEN BitOr(BitAnd(m, BitNot(hashctrl_mask_in_place)),
             BitAnd(other, hashctrl_mask_in_place))
  ELSE m

\* mutant: the hash is not looked at in either mode
must_be_preserved_without_hash(m) == ~is_unlocked(m)
must_be_preserved(m) ==
  IF UseCompactObjectHeaders THEN ~is_unlocked(m)
  ELSE (~is_unlocked(m) \/ ~has_no_hash(m))

prototype ==
  IF UseCompactObjectHeaders THEN no_lock_in_place
  ELSE BitOr(no_hash_in_place, no_lock_in_place)

encode_pointer_as_mark(p) == set_marked(from_pointer(p))
\* mutant: only the two lock bits are cleared
decode_pointer_lock_field_only(m) == BitAnd(m, BitNot(lock_mask_in_place))
decode_pointer(m) == clear_lock_bits(m)

\* mutant: the self-forward bit alone decides
is_self_forwarded_bit_only(m) == BitAnd(m, self_fwd_mask_in_place) # Zero
is_self_forwarded(m) ==
  Below(FromNat(4),
        mask_bits(Plus(m, FromNat(1)), BitOr(lock_mask_in_place, self_fwd_mask_in_place)))
set_self_forwarded(m) == BitOr(m, self_fwd_mask_in_place)
unset_self_forwarded(m) == BitAnd(m, BitNot(self_fwd_mask_in_place))

(***************************************************************************)
(* Codec: configurations and calls explored                                *)
(***************************************************************************)
Shifts == 0 .. MaxShift
\* size of the encoding range for a shift: nth_bit(bits + shift)
EncodingRange(shift) == nth_bit(narrow_klass_pointer_bits + shift)
\* process-wide bases: zero-based encoding and a page-aligned base
GlobalBases == {Zero, FromNat(4096)}
\* bases handed to the (base, shift) overloads: the above, one that is only
\* 4-byte aligned, and one far above the process-wide encoding range
Bases == GlobalBases \cup {FromNat(4100), nth_bit(40)}
\* byte offsets from the base of the addresses explored
Offsets(shift) ==
  {Zero, FromNat(1), FromNat(8), FromNat(64), FromNat(65), nth_bit(shift),
   Minus(EncodingRange(shift), nth_bit(MAX2(3, shift))), EncodingRange(shift)}
\* the first address above base that is aligned to max(8, 1<<shift) bytes
AlignedAbove(base, shift) ==
  Plus(BitAnd(base, BitNot(right_n_bits(MAX2(3, shift)))), nth_bit(MAX2(3, shift)))
KlassAddresses(base, shift) ==
  {Plus(base, o) : o \in Offsets(shift)}
    \cup {nullptr, Minus(base, FromNat(8)), AlignedAbove(base, shift)}
NarrowKlassValues ==
  {Zero, FromNat(1), FromNat(8), FromNat(2 ^ narrow_klass_pointer_bits - 1),
   nth_bit(narrow_klass_pointer_bits), nth_bit(31)}

NoCall == [op |-> "none", k |-> Zero, base |-> Zero, shift |-> 0,
           nk |-> Zero, out |-> Zero, violation |-> NoViolation]

CodecConfigInit ==
  /\ _base \in GlobalBases
  /\ _shift \in Shifts
  /\ _range \in {EncodingRange(_shift), ShiftRight(EncodingRange(_shift), 1)}
  /\ _lowest_valid_narrow_klass_id \in {FromNat(1), FromNat(2)}
  /\ _highest_valid_narrow_klass_id = Minus(ShiftRight(_range, _shift), FromNat(1))

\* narrowKlass nk = encode_not_null(k, narrow_base, shift)
EncodeNotNull(k, narrow_base, shift) ==
  LET r == encode_not_null(k, narrow_base, shift)
  IN  /\ call.op = "none"
      /\ call' = [op |-> "encode_not_null", k |-> k, base |-> narrow_base,
                  shift |-> shift, nk |-> r.val, out |-> Zero,
                  violation |-> r.violation]
      /\ UNCHANGED <<codec_vars, flag_vars, mark_vars, klut_vars>>

\* Klass* out = decode_not_null(nk, narrow_base, shift) of the value just encoded
DecodeNotNull ==
  /\ call.op = "encode_not_null"
  /\ LET r == decode_not_null(call.nk, call.base, call.shift)
     IN  call' = [call EXCEPT !.op = "decode_not_null", !.out = r.val,
                              !.violation = r.violation]
  /\ UNCHANGED <<codec_vars, flag_vars, mark_vars, klut_vars>>

\* narrowKlass nk = encode(k)
Encode(k) ==
  LET r == encode(k)
  IN  /\ call.op = "none"
      /\ call' = [op |-> "encode", k |-> k, base |-> _base, shift |-> _shift,
                  nk |-> r.val, out |-> Zero, violation |-> r.violation]
      /\ UNCHANGED <<codec_vars, flag_vars, mark_vars, klut_vars>>

\* Klass* out = decode(nk)
Decode(nk) ==
  LET r == decode(nk)
  IN  /\ call.op = "none"
      /\ call' = [op |-> "decode", k |-> Zero, base |-> _base, shift |-> _shift,
                  nk |-> nk, out |-> r.val, violation |-> r.violation]
      /\ UNCHANGED <<codec_vars, flag_vars, mark_vars, klut_vars>>

\* Klass* out = decode_without_asserts(nk)
DecodeWithoutAsserts(nk) ==
  /\ call.op = "none"
  /\ call' = [op |-> "decode_without_asserts", k |-> Zero, base |-> _base,
              shift |-> _shift, nk |-> nk, out |-> decode_without_asserts(nk),
              violation |-> NoViolation]
  /\ UNCHANGED <<codec_vars, flag_vars, mark_vars, klut_vars>>

\* the call returns to the caller, which may make the next one
Return ==
  /\ call.op # "none"
  /\ call' = NoCall
  /\ UNCHANGED <<codec_vars, flag_vars, mark_vars, klut_vars>>

vars == <<_base, _shift, _range, _lowest_valid_narrow_klass_id,
          _highest_valid_narrow_klass_id, call,
          UseCompactObjectHeaders, LockingMode, UseObjectMonitorTable,
          mark, mark_prev, mark_op, mark_init, base_age, incr_count,
          _entries, counter_registered, descriptors, klut_op, registering>>

(***************************************************************************)
(* SpecCodec: a configured codec and the calls made on it                  *)
(***************************************************************************)
CodecInit ==
  /\ CodecConfigInit
  /\ call = NoCall
  /\ FlagsIdle /\ MarkIdle /\ KlutIdle

CodecNext ==
  \/ \E shift \in Shifts, narrow_base \in Bases :
       \E k \in KlassAddresses(narrow_base, shift) : EncodeNotNull(k, narrow_base, shift)
  \/ DecodeNotNull
  \/ \E k \in KlassAddresses(_base, _shift) : Encode(k)
  \/ \E nk \in NarrowKlassValues : Decode(nk)
  \/ \E nk \in NarrowKlassValues : DecodeWithoutAsserts(nk)
  \/ Return

SpecCodec == CodecInit /\ [][CodecNext]_vars

(***************************************************************************)
(* Claims about the codec                                                  *)
(***************************************************************************)
\* the codec's validity conditions as the specification words them
AlignedForShift(a, shift) == is_aligned(a, MAX2(3, shift))
InEncodingRange(a, base, shift) ==
  /\ AtLeast(a, base)
  /\ Below(Minus(a, base), EncodingRange(shift))
ValidAddress(a, base, shift) ==
  AlignedForShift(a, shift) /\ InEncodingRange(a, base, shift)

\* C1 as claimed: for EVERY base, shift and address a aligned to max(8, 1<<shift)
\* inside [base, base + 2^(bits+shift)), decoding the encoded a returns a.
C1_RoundTripEveryBase ==
  (call.op = "decode_not_null" /\ ValidAddress(call.k, call.base, call.shift))
    => call.out = call.k

\* C1 as amended: the round trip decode_not_null(encode_not_null(a, base, shift),
\* base, shift) = a holds for every valid address a provided the base itself is
\* aligned to 1<<shift bytes.
C1_RoundTrip ==
  (/\ call.op = "decode_not_null"
   /\ ValidAddress(call.k, call.base, call.shift)
   /\ is_aligned(call.base, call.shift))
    => call.out = call.k

C1_Witness ==
  /\ call.op = "decode_not_null"
  /\ call.base = FromNat(4096) /\ call.shift = 3 /\ call.k = FromNat(4160)
  /\ call.nk = FromNat(8)
  /\ call.out = call.k

C3_ZeroSentinel ==
  /\ (call.op = "encode" /\ call.k = nullptr)
       => (call.nk = Zero /\ call.violation = NoViolation)
  /\ (call.op \in {"decode", "decode_without_asserts"} /\ call.nk = Zero)
       => /\ call.out = nullptr
          /\ call.violation = NoViolation
          /\ (_base # nullptr => call.out # _base)

C3_Witness ==
  /\ call.op = "decode" /\ call.nk = Zero
  /\ _base = FromNat(4096)
  /\ call.out = nullptr

\* C4 as claimed, for a base aligned to 1<<shift and an address other than the
\* base: the checked encode_not_null(a, base, shift) reports a violation exactly
\* when a is misaligned or outside the encoding range of the base and shift it
\* was passed, and accepts every other non-null address.
C4_CheckedEncodeExact ==
  (/\ call.op = "encode_not_null"
   /\ ~is_null(call.k)
   /\ is_aligned(call.base, call.shift)
   /\ call.k # call.base)
    => ((call.violation # NoViolation)
          <=> ~ValidAddress(call.k, call.base, call.shift))

(***************************************************************************)
(* SpecMark: the header word of an object and the mutators applied to it   *)
(***************************************************************************)
\* bound: the number of incr_age calls followed after a set_age
MaxIncrements == 17
\* ages handed to set_age: 5, max_age and one that overflows the field
AgeValues == {5, max_age, max_age + 1}
\* hashes handed to copy_set_hash: none, 1, and -1 (every bit set)
HashValues == {no_hash, FromNat(1), WordBits}
\* headers whose hashctrl bits copy_hashctrl_from reads: all four states, with
\* the other bits clear or set
HashctrlSources ==
  {Zero, hashctrl_hashed_mask_in_place, hashctrl_expanded_mask_in_place,
   WordBits \ hashctrl_mask_in_place, WordBits}
\* 8-byte aligned addresses (ObjectMonitor*, forwardee)
Pointers == {{3, 12, 20, 33}, WordBits \ right_n_bits(3)}
\* the headers an object starts with: the prototype, and the prototype with
\* bits above the hash-control field in place (a narrow Klass, with compact
\* headers)
InitialMarks ==
  {prototype, BitOr(prototype, ShiftLeft({0, 18}, klass_shift))}

MarkInit ==
  /\ UseCompactObjectHeaders \in BOOLEAN
  /\ LockingMode = LM_LIGHTWEIGHT
  /\ UseObjectMonitorTable = FALSE
  /\ mark \in InitialMarks
  /\ mark_prev = mark
  /\ mark_op = NoOp
  /\ mark_init = mark
  /\ base_age = 0
  /\ incr_count = 0
  /\ CodecIdle
  /\ KlutIdle

\* the object's header becomes the result of an operation on it
ApplyTo(name, arg, result, violation) ==
  /\ mark' = result
  /\ mark_prev' = mark
  /\ mark_op' = [name |-> name, arg |-> arg, violation |-> violation]
  /\ UNCHANGED <<mark_init, flag_vars, codec_vars, call, klut_vars>>
\* an operation other than set_age and incr_age
Apply(name, arg, result, violation) ==
  /\ ApplyTo(name, arg, result, violation)
  /\ UNCHANGED <<base_age, incr_count>>

SetAge(v) ==
  /\ ApplyTo("set_age", FromNat(v), set_age(mark, v), set_age_assert(mark, v))
  /\ base_age' = v
  /\ incr_count' = 0
IncrAge ==
  /\ incr_count < MaxIncrements
  /\ ApplyTo("incr_age", Zero, incr_age(mark), NoViolation)
  /\ incr_count' = incr_count + 1
  /\ UNCHANGED base_age
CopySetHash(h) ==
  Apply("copy_set_hash", h, copy_set_hash(mark, h), copy_set_hash_assert(mark, h))
SetMarked == Apply("set_marked", Zero, set_marked(mark), NoViolation)
SetUnmarked == Apply("set_unmarked", Zero, set_unmarked(mark), NoViolation)
SetUnlocked == Apply("set_unlocked", Zero, set_unlocked(mark), NoViolation)
SetFastLocked == Apply("set_fast_locked", Zero, set_fast_locked(mark), NoViolation)
SetHasMonitor == Apply("set_has_monitor", Zero, set_has_monitor(mark), NoViolation)
SetSelfForwarded ==
  Apply("set_self_forwarded", Zero, set_self_forwarded(mark), NoViolation)
UnsetSelfForwarded ==
  Apply("unset_self_forwarded", Zero, unset_self_forwarded(mark), NoViolation)
SetForwardExpanded ==
  Apply("set_forward_expanded", Zero, set_forward_expanded(mark),
        set_forward_expanded_assert(mark))
SetHashedNotExpanded ==
  Apply("set_hashed_not_expanded", Zero, set_hashed_not_expanded(mark),
        compact_only_assert)
SetHashedExpanded ==
  Apply("set_hashed_expanded", Zero, set_hashed_expanded(mark), compact_only_assert)
SetNotHashedExpanded ==
  Apply("set_not_hashed_expanded", Zero, set_not_hashed_expanded(mark),
        compact_only_assert)
CopyHashctrlFrom(other) ==
  Apply("copy_hashctrl_from", other, copy_hashctrl_from(mark, other), NoViolation)
\* the header is replaced by markWord::encode(ObjectMonitor*)
EncodeMonitor(p) ==
  Apply("encode_monitor", p, encode_monitor(p), encode_monitor_assert(p))
\* the header is replaced by markWord::encode_pointer_as_mark(p)
EncodePointerAsMark(p) ==
  Apply("encode_pointer_as_mark", p, encode_pointer_as_mark(p), NoViolation)
\* the header is replaced by markWord::INFLATING()
SetInflating == Apply("INFLATING", Zero, INFLATING, NoViolation)

MarkNext ==
  \/ \E v \in AgeValues : SetAge(v)
  \/ \E h \in HashValues : CopySetHash(h)
  \/ SetMarked
  \/ SetUnmarked
  \/ SetUnlocked
  \/ SetFastLocked
  \/ SetHasMonitor
  \/ SetSelfForwarded
  \/ UnsetSelfForwarded
  \/ SetForwardExpanded
  \/ SetHashedNotExpanded
  \/ SetHashedExpanded
  \/ SetNotHashedExpanded
  \/ \E other \in HashctrlSources : CopyHashctrlFrom(other)
  \/ \E p \in Pointers : EncodeMonitor(p)
  \/ \E p \in Pointers : EncodePointerAsMark(p)
  \/ SetInflating

SpecMark == MarkInit /\ [][MarkNext]_vars

\* an object that ages: set_age with an age the field holds, incr_age, and
\* the lock and self-forward mutators in between
AgeNext ==
  \/ \E v \in 0 .. max_age : SetAge(v)
  \/ IncrAge
  \/ SetUnlocked
  \/ SetFastLocked
  \/ SetHasMonitor
  \/ SetSelfForwarded
  \/ UnsetSelfForwarded

SpecAge == MarkInit /\ [][AgeNext]_vars

(***************************************************************************)
(* Claims about the header word                                            *)
(***************************************************************************)
\* the fields of the header as the layout comment of markWord.hpp draws them
\* (64 bits): lock:2, self-fwd:1, age:4, unused_gap:4, then hash:31 or, with
\* compact headers, hashctrl:2
LockField == 0 .. 1
SelfFwdField == {2}
AgeField == 3 .. 6
HashField == 11 .. 41
HashctrlField == 11 .. 12
LockStateBits(m) == m \cap (LockField \cup SelfFwdField)

\* how many of the four lock-state predicates a header satisfies
LockStatesTrue(m) ==
  Cardinality({p \in {"unlocked", "locked", "monitor", "marked"} :
     \/ p = "unlocked" /\ is_unlocked(m)
     \/ p = "locked" /\ is_locked(m)
     \/ p = "monitor" /\ has_monitor(m)
     \/ p = "marked" /\ is_marked(m)})

\* C5 as claimed: every header other than the all-zero word satisfies exactly
\* one of is_unlocked, is_locked, has_monitor, is_marked.
C5_ExactlyOneLockState ==
  mark # Zero => LockStatesTrue(mark) = 1

\* C5 as amended: is_locked is the negation of is_unlocked, so exactly one of
\* the two holds of every header and is_locked also holds of monitor and marked
\* headers; with the self-forward bit clear at most one of is_unlocked,
\* has_monitor, is_marked holds (none for lock field 00); with it set is_marked
\* holds whatever the lock field. The all-zero INFLATING word is
\* is_being_inflated and not is_unlocked; no other word is is_being_inflated.
C5_LockStates ==
  /\ is_locked(mark) = ~is_unlocked(mark)
  /\ has_monitor(mark) => is_locked(mark)
  /\ (mark \cap SelfFwdField = {}) =>
       /\ is_unlocked(mark) = (mark \cap LockField = {0})
       /\ has_monitor(mark) = (mark \cap LockField = {1})
       /\ is_marked(mark) = (mark \cap LockField = {0, 1})
  /\ (mark \cap SelfFwdField # {}) => is_marked(mark)
  /\ (mark = INFLATING) => (is_being_inflated(mark) /\ ~is_unlocked(mark))
  /\ (mark # Zero) => ~is_being_inflated(mark)

C5_Witness ==
  /\ mark_op.name = "set_self_forwarded"
  /\ mark # Zero
  /\ is_unlocked(mark) /\ is_marked(mark) /\ ~is_locked(mark)

\* the field a mutator is named for
FieldOf(name) ==
  CASE name = "set_age" -> AgeField
    [] name = "copy_set_hash" -> HashField
    [] name \in {"set_marked", "set_unmarked", "set_unlocked", "set_fast_locked",
                 "set_has_monitor"} -> LockField
    [] name \in {"set_self_forwarded", "unset_self_forwarded"} -> SelfFwdField
    [] name \in {"set_hashed_not_expanded", "set_hashed_expanded",
                 "set_not_hashed_expanded", "copy_hashctrl_from"} -> HashctrlField
    [] OTHER -> WordBits
IsolatedMutators ==
  {"set_age", "copy_set_hash", "set_marked", "set_unmarked", "set_unlocked",
   "set_fast_locked", "set_has_monitor", "set_self_forwarded",
   "unset_self_forwarded", "set_hashed_not_expanded", "set_hashed_expanded",
   "set_not_hashed_expanded", "copy_hashctrl_from"}

\* C6: the result of a mutator differs from the header it was applied to only
\* in the bits of the field the mutator is named for; set_age in particular
\* leaves the lock, self-forward and hash or hash-control bits alone.
C6_BitIsolation ==
  /\ (mark_op.name \in IsolatedMutators)
       => BitXor(mark, mark_prev) \subseteq FieldOf(mark_op.name)
  /\ (mark_op.name = "set_age")
       => /\ LockStateBits(mark) = LockStateBits(mark_prev)
          /\ mark \cap HashField = mark_prev \cap HashField

C6_Witness ==
  /\ mark_op.name = "set_age" /\ mark_op.arg = FromNat(5)
  /\ age(mark_prev) = max_age /\ age(mark) = 5
  /\ mark_prev \cap HashField # {}
  /\ has_monitor(mark)

\* the hash-control state of a header (compact headers)
HashState(m) ==
  CASE m \cap HashctrlField = {} -> "never-hashed"
    [] m \cap HashctrlField = {11} -> "hashed-not-expanded"
    [] m \cap HashctrlField = {12} -> "not-hashed-expanded"
    [] m \cap HashctrlField = {11, 12} -> "hashed-expanded"
HashctrlMutators ==
  {"set_hashed_not_expanded", "set_hashed_expanded", "set_not_hashed_expanded",
   "copy_hashctrl_from"}
LifecycleMove(from, to) ==
  \/ from = to
  \/ from = "never-hashed" /\ to \in {"hashed-not-expanded", "not-hashed-expanded"}
  \/ from = "hashed-not-expanded" /\ to = "hashed-expanded"

\* C7 as claimed: with compact headers every hash-control mutator moves the
\* hash-control field along never-hashed -> hashed-not-expanded ->
\* hashed-expanded or never-hashed -> not-hashed-expanded, never otherwise.
C7_LifecycleMonotone ==
  [][(UseCompactObjectHeaders /\ mark_op'.name \in HashctrlMutators)
       => LifecycleMove(HashState(mark), HashState(mark'))]_vars

\* C7 as amended: with compact headers the hash-control mutators are
\* unconditional setters: each leaves the field in the state it names (for
\* copy_hashctrl_from, the state of the header copied from) whatever the state
\* before, the accessors identify exactly that state, and the field holds one
\* of the four states; the order of the lifecycle is not enforced by the header.
C7_HashctrlSetters ==
  (UseCompactObjectHeaders /\ mark_op.name \in HashctrlMutators) =>
    /\ HashState(mark) =
         CASE mark_op.name = "set_hashed_not_expanded" -> "hashed-not-expanded"
           [] mark_op.name = "set_hashed_expanded" -> "hashed-expanded"
           [] mark_op.name = "set_not_hashed_expanded" -> "not-hashed-expanded"
           [] mark_op.name = "copy_hashctrl_from" -> HashState(mark_op.arg)
    /\ is_hashed_not_expanded(mark) = (HashState(mark) = "hashed-not-expanded")
    /\ is_hashed_expanded(mark) = (HashState(mark) = "hashed-expanded")
    /\ is_not_hashed_expanded(mark) = (HashState(mark) = "not-hashed-expanded")
    /\ is_hashed(mark) = (HashState(mark) \in {"hashed-not-expanded", "hashed-expanded"})
    /\ is_expanded(mark) = (HashState(mark) \in {"not-hashed-expanded", "hashed-expanded"})
    /\ has_no_hash(mark) = ~is_hashed(mark)
    /\ mark_op.violation = NoViolation

C7_Witness ==
  /\ UseCompactObjectHeaders
  /\ mark_op.name = "set_hashed_expanded"
  /\ HashState(mark_prev) = "never-hashed"
  /\ is_hashed_expanded(mark)
  /\ mark_op.violation = NoViolation

MIN2(a, b) == IF a < b THEN a ELSE b

\* C8: incr_age never yields an age above max_age and never a smaller age;
\* after a set_age(v) and n calls of incr_age the age is min(v + n, max_age),
\* so max_age + k calls from age 0 yield max_age; incr_age on a header at
\* max_age returns the identical word.
C8_AgeSaturates ==
  /\ age(mark) <= max_age
  /\ age(mark) = MIN2(base_age + incr_count, max_age)
  /\ (base_age = 0 /\ incr_count >= max_age) => age(mark) = max_age
  /\ (mark_op.name = "incr_age") =>
       /\ age(mark) >= age(mark_prev)
       /\ (age(mark_prev) = max_age) => mark = mark_prev
       /\ (age(mark_prev) < max_age) => age(mark) = age(mark_prev) + 1

C8_Witness ==
  /\ mark_op.name = "incr_age"
  /\ base_age = 0 /\ incr_count = max_age + 1
  /\ age(mark_prev) = max_age
  /\ age(mark) = max_age /\ mark = mark_prev

\* the object was created with the prototype header of the non-compact layout
FromModeAPrototype == ~UseCompactObjectHeaders /\ mark_init = prototype

\* C9 as claimed: the mode-A prototype is unlocked, has no hash and has age 0,
\* and set_age(5) followed by six calls of incr_age yields age 15.
C9_SixIncrementsYield15 ==
  /\ (FromModeAPrototype /\ mark_op = NoOp) =>
       (is_unlocked(mark) /\ has_no_hash(mark) /\ age(mark) = 0)
  /\ (FromModeAPrototype /\ base_age = 5 /\ incr_count = 6) => age(mark) = 15

\* C9 as amended: the mode-A prototype is unlocked, has no hash and has age 0;
\* set_age(5) followed by six calls of incr_age yields age 11, and followed by
\* sixteen calls yields age 15, the largest age, not 21.
C9_Scenario ==
  /\ (FromModeAPrototype /\ mark_op = NoOp) =>
       (is_unlocked(mark) /\ has_no_hash(mark) /\ age(mark) = 0)
  /\ (FromModeAPrototype /\ base_age = 5 /\ incr_count = 6) => age(mark) = 11
  /\ (FromModeAPrototype /\ base_age = 5 /\ incr_count = 16) => age(mark) = 15

C9_Witness ==
  /\ FromModeAPrototype
  /\ mark_op.name = "incr_age"
  /\ base_age = 5 /\ incr_count = 6
  /\ age(mark) = 11

(***************************************************************************)
(* KlassInfoLUT                                                            *)
(***************************************************************************)
\* Klass::KlassKind, as register_klass switches over it
KlassKinds ==
  {"InstanceKlassKind", "InstanceRefKlassKind", "InstanceMirrorKlassKind",
   "InstanceClassLoaderKlassKind", "InstanceStackChunkKlassKind",
   "TypeArrayKlassKind", "ObjArrayKlassKind"}
\* the table holds one entry for each narrowKlass value
num_entries == 2 ^ narrow_klass_pointer_bits
\* the value of the entry built from a Klass: it carries the kind of the Klass
KlassLUTEntry(k) == [kind |-> k.kind]
\* the value of a slot that holds no entry; no Klass yields it
invalid_entry == [kind |-> "invalid"]
\* the slot of a narrowKlass
at(nk) == _entries[ToNat(nk)]

\* mutant: the slots are filled with an entry that a Klass could yield
initialize_with_valid_entries ==
  [i \in 0 .. (num_entries - 1) |-> [kind |-> "InstanceKlassKind"]]
\* the table after initialize()
initialize == [i \in 0 .. (num_entries - 1) |-> invalid_entry]
\* mutant: the entry is stored in the slot after the one of the narrowKlass
register_klass_next_slot(k) ==
  [_entries EXCEPT ![(ToNat(encode(k.addr).val) + 1) % num_entries] = KlassLUTEntry(k)]
\* mutant: the entry is stored in the slot of the narrowKlass and in the next
register_klass_and_neighbour(k) ==
  [register_klass_next_slot(k) EXCEPT ![ToNat(encode(k.addr).val)] = KlassLUTEntry(k)]
\* the table after register_klass(k)
register_klass(k) ==
  [_entries EXCEPT ![ToNat(encode(k.addr).val)] = KlassLUTEntry(k)]

\* bound: the number of register_klass calls made
MaxRegistrations == 3
Registrations ==
  LET RECURSIVE Sum(_)
      Sum(S) == IF S = {} THEN 0
                ELSE LET x == CHOOSE x \in S : TRUE
                     IN  counter_registered[x] + Sum(S \ {x})
  IN  Sum(KlassKinds)
\* addresses of Klass structures: in the Klass range, aligned to the larger of
\* 8 bytes and 1 << shift, none at the base
KlassAddress(i) == Plus(_base, ShiftLeft(FromNat(i), MAX2(3, _shift)))
\* the Klass structures registered: one of each kind; some share an address,
\* which one Klass takes over from another that was unloaded
Klasses ==
  {[addr |-> KlassAddress(2), kind |-> "InstanceKlassKind"],
   [addr |-> KlassAddress(2), kind |-> "InstanceRefKlassKind"],
   [addr |-> KlassAddress(3), kind |-> "InstanceMirrorKlassKind"],
   [addr |-> KlassAddress(3), kind |-> "InstanceClassLoaderKlassKind"],
   [addr |-> KlassAddress(5), kind |-> "InstanceStackChunkKlassKind"],
   [addr |-> KlassAddress(5), kind |-> "TypeArrayKlassKind"],
   [addr |-> KlassAddress(7), kind |-> "ObjArrayKlassKind"]}
\* narrowKlass values looked up: those of Klass addresses, and 0 and the last
\* slot, which no registration fills
LookupValues ==
  {FromNat(i) : i \in {0, 2, 3, 7, num_entries - 1}}

NoRegistration == [pc |-> "idle", k |-> [addr |-> Zero, kind |-> "none"],
                   nk |-> Zero, e |-> [kind |-> "invalid"]]
NoKlutOp == [op |-> "none", nk |-> Zero, entry |-> invalid_entry,
             violation |-> NoViolation]

\* the encoding is set up with a shift of 3 and the whole encoding range, so
\* that the Klass addresses above lie in the Klass range; the table is not
\* yet allocated
KlutInit ==
  /\ CodecConfigInit
  /\ _shift = 3
  /\ _range = EncodingRange(_shift)
  /\ call = NoCall
  /\ _entries = <<>>
  /\ counter_registered = [kind \in KlassKinds |-> 0]
  /\ descriptors = <<>>
  /\ klut_op = NoKlutOp
  /\ registering = NoRegistration
  /\ FlagsIdle
  /\ MarkIdle

\* KlassInfoLUT::initialize()
Initialize ==
  /\ _entries = <<>>
  /\ _entries' = initialize
  /\ klut_op' = [op |-> "initialize", nk |-> Zero, entry |-> invalid_entry,
                 violation |-> IF narrow_klass_pointer_bits <= 22
                               THEN NoViolation ELSE "sanity"]
  /\ UNCHANGED <<counter_registered, descriptors, registering, codec_vars, call,
                 flag_vars, mark_vars>>

\* KlassInfoLUT::register_klass(k), debug build (sanity check and counters)
RegisterKlass(k) ==
  LET nk == encode(k.addr)
      e  == KlassLUTEntry(k)
  IN  /\ _entries # <<>>
      /\ Registrations < MaxRegistrations
      /\ ToNat(nk.val) < num_entries
      /\ _entries' = register_klass(k)
      /\ klut_op' = [op |-> "register_klass", nk |-> nk.val, entry |-> e,
                     violation |-> FirstViolation(<<nk.violation,
                        IF register_klass(k)[ToNat(nk.val)] = e
                        THEN NoViolation ELSE "Sanity">>)]
      /\ counter_registered' = [counter_registered EXCEPT ![k.kind] = @ + 1]
      /\ descriptors' = [a \in DOMAIN descriptors \cup {k.addr} |->
                           IF a = k.addr THEN k.kind ELSE descriptors[a]]
      /\ UNCHANGED <<registering, codec_vars, call, flag_vars, mark_vars>>

\* a lookup of the slot of narrowKlass nk
Lookup(nk) ==
  /\ _entries # <<>>
  /\ klut_op' = [op |-> "lookup", nk |-> nk, entry |-> at(nk),
                 violation |-> NoViolation]
  /\ UNCHANGED <<_entries, counter_registered, descriptors, registering,
                 codec_vars, call, flag_vars, mark_vars>>

KlutNext ==
  \/ Initialize
  \/ \E k \in Klasses : RegisterKlass(k)
  \/ \E nk \in LookupValues : Lookup(nk)

SpecKlut == KlutInit /\ [][KlutNext]_vars

\* the Klass addresses registered so far whose narrowKlass is nk
RegisteredAt(nk) == {a \in DOMAIN descriptors : encode(a).val = nk}

\* C10: after initialize() and any sequence of register_klass calls, a lookup
\* of a narrowKlass returns an entry whose kind is the kind of the Klass
\* registered at it, and a lookup of a slot that was never registered returns
\* the invalid entry.
C10_CacheDeterminism ==
  (klut_op.op = "lookup") =>
     /\ \A a \in RegisteredAt(klut_op.nk) : klut_op.entry.kind = descriptors[a]
     /\ (RegisteredAt(klut_op.nk) = {}) => klut_op.entry = invalid_entry

C10_Witness ==
  /\ klut_op.op = "lookup"
  /\ Cardinality(DOMAIN descriptors) >= 2
  /\ \E a \in RegisteredAt(klut_op.nk) :
       /\ klut_op.entry.kind = descriptors[a]
       /\ descriptors[a] = "ObjArrayKlassKind"
  /\ \E i \in 0 .. (num_entries - 1) : _entries[i] = invalid_entry

\* C11 as claimed: a register_klass into a slot that holds a valid entry of a
\* different value trips the consistency check of a debug build, and does not
\* change the entry the slot holds.
C11_WriteOncePerSlot ==
  [][(/\ klut_op'.op = "register_klass"
      /\ at(klut_op'.nk) # invalid_entry
      /\ at(klut_op'.nk) # klut_op'.entry)
     => (/\ klut_op'.violation # NoViolation
         /\ _entries'[ToNat(klut_op'.nk)] = at(klut_op'.nk))]_vars

\* C12: without compact headers must_be_preserved is true exactly when the
\* header is not unlocked or has a hash (false only for an unlocked header of
\* hash 0); with compact headers exactly when the header is not unlocked,
\* whatever the hash-control bits; the age bits never affect the result.
C12_MustBePreserved ==
  /\ must_be_preserved(mark) =
       IF UseCompactObjectHeaders THEN mark \cap LockField # {0}
       ELSE (mark \cap LockField # {0} \/ mark \cap HashField # {})
  /\ \A v \in 0 .. max_age :
       must_be_preserved(set_age(mark, v)) = must_be_preserved(mark)
  /\ UseCompactObjectHeaders =>
       \A other \in HashctrlSources :
         must_be_preserved(copy_hashctrl_from(mark, other)) = must_be_preserved(mark)

C12_Witness ==
  /\ ~UseCompactObjectHeaders
  /\ mark_op.name = "set_age"
  /\ age(mark) # age(mark_prev)
  /\ is_unlocked(mark) /\ hash(mark) # no_hash
  /\ must_be_preserved(mark)
  /\ ~must_be_preserved(copy_set_hash(mark, no_hash))

(***************************************************************************)
(* Accessors of the header under every mode and locking discipline         *)
(***************************************************************************)
CompactOnlyAccessors ==
  {"is_hashed_not_expanded", "is_hashed_expanded", "is_not_hashed_expanded",
   "is_expanded", "is_hashed"}
Accessors ==
  CompactOnlyAccessors \cup
    {"hash", "has_no_hash", "has_locker", "locker", "is_fast_locked",
     "has_monitor", "monitor", "is_unlocked", "is_locked"}
\* the assertion an accessor trips on header m in a debug build
accessor_assert(name, m) ==
  CASE name \in CompactOnlyAccessors -> compact_only_assert
    [] name = "hash" -> hash_assert(m)
    [] name = "has_no_hash" -> has_no_hash_assert(m)
    [] name = "has_locker" -> has_locker_assert(m)
    [] name = "locker" -> locker_assert(m)
    [] name = "is_fast_locked" -> is_fast_locked_assert(m)
    [] name = "monitor" -> monitor_assert(m)
    [] OTHER -> NoViolation

AccessInit ==
  /\ UseCompactObjectHeaders \in BOOLEAN
  /\ LockingMode \in {LM_LEGACY, LM_LIGHTWEIGHT}
  /\ UseObjectMonitorTable \in BOOLEAN
  /\ mark \in InitialMarks
  /\ mark_prev = mark
  /\ mark_op = NoOp
  /\ mark_init = mark
  /\ base_age = 0
  /\ incr_count = 0
  /\ CodecIdle
  /\ KlutIdle

\* an accessor reads the header and leaves it as it is
CallAccessor(name) == Apply(name, Zero, mark, accessor_assert(name, mark))

AccessNext ==
  \/ \E name \in Accessors : CallAccessor(name)
  \/ \E h \in HashValues : CopySetHash(h)
  \/ SetMarked
  \/ SetUnlocked
  \/ SetFastLocked
  \/ SetHasMonitor
  \/ SetHashedNotExpanded
  \/ SetHashedExpanded
  \/ SetNotHashedExpanded

SpecAccess == AccessInit /\ [][AccessNext]_vars

\* whether an operation may be called on header m in the active mode and
\* locking discipline: the compact-header accessors and setters with compact
\* headers, hash and copy_set_hash without, has_locker and locker under legacy
\* locking (locker on a stack-locked header), is_fast_locked under lightweight
\* locking, monitor on a monitor header kept in the header word
ValidCall(name, m) ==
  CASE name \in CompactOnlyAccessors \cup
         {"set_hashed_not_expanded", "set_hashed_expanded",
          "set_not_hashed_expanded"} -> UseCompactObjectHeaders
    [] name \in {"hash", "copy_set_hash"} -> ~UseCompactObjectHeaders
    [] name = "has_locker" -> LockingMode = LM_LEGACY
    [] name = "locker" -> LockingMode = LM_LEGACY /\ m \cap LockField = {}
    [] name = "is_fast_locked" -> LockingMode = LM_LIGHTWEIGHT
    [] name = "monitor" -> m \cap LockField = {1} /\ ~UseObjectMonitorTable
    [] OTHER -> TRUE

\* C13: in a debug build a call trips an assertion exactly when it is not
\* valid in the active mode and discipline: a compact-header accessor without
\* compact headers, hash or copy_set_hash with them, has_locker or locker under
\* lightweight locking, is_fast_locked under legacy locking, monitor on a
\* header whose lock field is not monitor; every valid call trips none.
C13_StateViolations ==
  (mark_op.name # "none") =>
    ((mark_op.violation # NoViolation) <=> ~ValidCall(mark_op.name, mark_prev))

C13_Witness ==
  /\ mark_op.name = "monitor"
  /\ ~UseObjectMonitorTable
  /\ mark_prev \cap LockField = {0}
  /\ mark_op.violation = "check"

(***************************************************************************)
(* KlassInfoLUT: a thread registers while another looks up. register_klass *)
(* is split where the other thread can run: after the entry is computed,   *)
(* after the store of the (aligned, 32-bit) slot, and at its end.          *)
(***************************************************************************)
\* nk = encode(k); KlassLUTEntry e(k): the slot is not yet written. Each slot
\* is registered once: the Klass address has not been registered before.
RegisterEncode(k) ==
  LET nk == encode(k.addr)
  IN  /\ _entries # <<>>
      /\ registering.pc = "idle"
      /\ k.addr \notin DOMAIN descriptors
      /\ Registrations < MaxRegistrations
      /\ ToNat(nk.val) < num_entries
      /\ registering' = [pc |-> "encoded", k |-> k, nk |-> nk.val,
                         e |-> KlassLUTEntry(k)]
      /\ klut_op' = [op |-> "register_klass", nk |-> nk.val,
                     entry |-> KlassLUTEntry(k), violation |-> nk.violation]
      /\ UNCHANGED <<_entries, counter_registered, descriptors, codec_vars, call,
                     flag_vars, mark_vars>>

\* _entries[nk] = e.value()
RegisterStore ==
  /\ registering.pc = "encoded"
  /\ _entries' = register_klass(registering.k)
  /\ registering' = [registering EXCEPT !.pc = "stored"]
  /\ klut_op' = [klut_op EXCEPT !.op = "register_klass", !.nk = registering.nk,
                                !.entry = registering.e]
  /\ UNCHANGED <<counter_registered, descriptors, codec_vars, call, flag_vars,
                 mark_vars>>

\* the sanity check and the counter of a debug build; the call returns
RegisterReturn ==
  /\ registering.pc = "stored"
  /\ klut_op' = [op |-> "register_klass", nk |-> registering.nk,
                 entry |-> registering.e,
                 violation |-> IF at(registering.nk) = registering.e
                               THEN NoViolation ELSE "Sanity"]
  /\ counter_registered' =
       [counter_registered EXCEPT ![registering.k.kind] = @ + 1]
  /\ descriptors' = [a \in DOMAIN descriptors \cup {registering.k.addr} |->
                       IF a = registering.k.addr THEN registering.k.kind
                       ELSE descriptors[a]]
  /\ registering' = NoRegistration
  /\ UNCHANGED <<_entries, codec_vars, call, flag_vars, mark_vars>>

KlutConcurrentNext ==
  \/ Initialize
  \/ \E k \in Klasses : RegisterEncode(k)
  \/ RegisterStore
  \/ RegisterReturn
  \/ \E nk \in LookupValues : Lookup(nk)

SpecKlutConcurrent == KlutInit /\ [][KlutConcurrentNext]_vars

\* a register_klass of the slot of nk is under way
InFlight(nk) == registering.pc # "idle" /\ registering.nk = nk

\* C14: a lookup that runs while the one register_klass of its slot is under
\* way returns the invalid entry or the whole registered entry; once that
\* register_klass has returned a lookup returns the registered entry; and the
\* table holds only what initialize and the registrations stored, so lookups
\* never modify it.
C14_ConcurrentLookup ==
  /\ (klut_op.op = "lookup") =>
       /\ \A a \in RegisteredAt(klut_op.nk) :
            klut_op.entry = [kind |-> descriptors[a]]
       /\ (RegisteredAt(klut_op.nk) = {} /\ InFlight(klut_op.nk)) =>
            klut_op.entry \in {invalid_entry, registering.e}
       /\ (RegisteredAt(klut_op.nk) = {} /\ ~InFlight(klut_op.nk)) =>
            klut_op.entry = invalid_entry
  /\ (_entries # <<>>) =>
       LET slot == [a \in DOMAIN descriptors |-> ToNat(encode(a).val)]
           storing == IF registering.pc = "stored" THEN {ToNat(registering.nk)}
                      ELSE {}
       IN  \A i \in 0 .. (num_entries - 1) :
             _entries[i] =
               IF \E a \in DOMAIN slot : slot[a] = i
               THEN [kind |-> descriptors[CHOOSE a \in DOMAIN slot : slot[a] = i]]
               ELSE IF i \in storing THEN registering.e ELSE invalid_entry

C14_Witness ==
  /\ klut_op.op = "lookup"
  /\ registering.pc = "stored"
  /\ registering.nk = klut_op.nk
  /\ klut_op.entry = registering.e
  /\ klut_op.entry # invalid_entry
  /\ DOMAIN descriptors # {}

\* C16 as claimed: encode(ObjectMonitor*) and set_has_monitor() yield a header
\* with has_monitor() in which no hash or age bit of the header replaced
\* remains, and monitor() of encode(m) is m.
C16_MonitorDiscardsHashAndAge ==
  /\ (mark_op.name = "encode_monitor") =>
       /\ has_monitor(mark)
       /\ mark = BitOr(mark_op.arg, monitor_value)
       /\ monitor(mark) = mark_op.arg
  /\ (mark_op.name = "set_has_monitor") =>
       /\ has_monitor(mark)
       /\ mark \cap mark_prev \cap (AgeField \cup HashField) = {}

\* C16 as amended: the static encode(ObjectMonitor* m) yields m with the lock
\* field set to monitor, a word that holds nothing of the header it replaces,
\* and for m with the two low bits clear monitor() returns exactly m;
\* set_has_monitor() yields a header with has_monitor() that differs from the
\* header it was applied to in the lock field only, so its hash and age bits
\* are kept.
C16_MonitorState ==
  /\ (mark_op.name = "encode_monitor") =>
       /\ has_monitor(mark)
       /\ mark = BitOr(mark_op.arg, monitor_value)
       /\ monitor(mark) = mark_op.arg
       /\ monitor_assert(mark) = NoViolation
  /\ (mark_op.name = "set_has_monitor") =>
       /\ has_monitor(mark)
       /\ mark \ LockField = mark_prev \ LockField
       /\ age(mark) = age(mark_prev)
       /\ mark \cap HashField = mark_prev \cap HashField

C16_Witness ==
  /\ mark_op.name = "set_has_monitor"
  /\ has_monitor(mark) /\ ~has_monitor(mark_prev)
  /\ age(mark_prev) = 5 /\ age(mark) = 5
  /\ mark \cap HashField # {}

\* C17: for an address p with the three low bits zero encode_pointer_as_mark(p)
\* is a header with is_marked and is_forwarded, neither is_unlocked nor
\* has_monitor, whose decode_pointer is p; and decode_pointer is not changed
\* by set_self_forwarded, unset_self_forwarded and set_forward_expanded.
C17_ForwardingRoundTrip ==
  /\ (mark_op.name = "encode_pointer_as_mark"
        /\ mark_op.arg \cap (LockField \cup SelfFwdField) = {}) =>
       /\ is_marked(mark) /\ is_forwarded(mark)
       /\ ~is_unlocked(mark) /\ ~has_monitor(mark)
       /\ decode_pointer(mark) = mark_op.arg
  /\ (mark_op.name \in {"set_self_forwarded", "unset_self_forwarded",
                        "set_forward_expanded"}) =>
       decode_pointer(mark) = decode_pointer(mark_prev)
  /\ decode_pointer(set_self_forwarded(mark)) = decode_pointer(mark)
  /\ decode_pointer(unset_self_forwarded(mark)) = decode_pointer(mark)
  /\ decode_pointer(set_forward_expanded(mark)) = decode_pointer(mark)

C17_Witness ==
  /\ mark_op.name = "set_self_forwarded"
  /\ mark # mark_prev
  /\ \E p \in Pointers :
       /\ mark_prev = encode_pointer_as_mark(p)
       /\ decode_pointer(mark) = p

\* C18: for a header h whose lock field is not marked set_self_forwarded(h) is
\* is_self_forwarded and is_forwarded, and unset_self_forwarded gives h back
\* if the self-forward bit of h was clear; a plain-forwarded header (low bits
\* 011) and a forward-expanded header (111) are never is_self_forwarded.
C18_SelfForwarding ==
  /\ (mark \cap LockField # {0, 1}) =>
       /\ is_self_forwarded(set_self_forwarded(mark))
       /\ is_forwarded(set_self_forwarded(mark))
       /\ (mark \cap SelfFwdField = {}) =>
            unset_self_forwarded(set_self_forwarded(mark)) = mark
  /\ (mark_op.name = "set_self_forwarded" /\ mark_prev \cap LockField # {0, 1}) =>
       /\ is_self_forwarded(mark) /\ is_forwarded(mark)
       /\ (mark_prev \cap SelfFwdField = {}) => unset_self_forwarded(mark) = mark_prev
  /\ (LockStateBits(mark) = {0, 1}) => (~is_self_forwarded(mark) /\ is_forwarded(mark))
  /\ (LockStateBits(mark) = {0, 1, 2}) => (~is_self_forwarded(mark) /\ is_forwarded(mark))

C18_Witness ==
  /\ mark_op.name = "set_self_forwarded"
  /\ LockStateBits(mark_prev) = {0}
  /\ is_self_forwarded(mark) /\ is_forwarded(mark)
  /\ unset_self_forwarded(mark) = mark_prev

\* C19: set_forward_expanded trips its assertion on every header but a
\* normal-forwarded one (low bits 011), self-forwarded headers included; its
\* result is is_forward_expanded and is_forwarded; is_forward_expanded is
\* false for every unlocked, locked, monitor, plain-forwarded and
\* self-forwarded header.
C19_ForwardExpanded ==
  /\ (mark_op.name = "set_forward_expanded") =>
       /\ (mark_op.violation = NoViolation) <=> (LockStateBits(mark_prev) = {0, 1})
       /\ is_self_forwarded(mark_prev) => mark_op.violation # NoViolation
       /\ is_forward_expanded(mark) /\ is_forwarded(mark)
  /\ (\/ LockStateBits(mark) \in {{0}, {}, {1}, {0, 1}}
      \/ is_self_forwarded(mark)) => ~is_forward_expanded(mark)
  /\ is_forward_expanded(mark) <=> (LockStateBits(mark) = {0, 1, 2})

C19_Witness ==
  /\ mark_op.name = "set_forward_expanded"
  /\ is_self_forwarded(mark_prev)
  /\ mark_op.violation = "must be normal-forwarded here"
  /\ is_forward_expanded(mark)

\* C20: for an unlocked header h (lock field 01) set_fast_locked(h) has lock
\* field 00 and every other bit of h, and set_unlocked gives h back;
\* set_unlocked of a header whose lock field is 00 or 01 is is_unlocked.
C20_FastLockRoundTrip ==
  /\ (mark \cap LockField = {0}) =>
       /\ set_fast_locked(mark) \cap LockField = {}
       /\ set_fast_locked(mark) \ LockField = mark \ LockField
       /\ set_unlocked(set_fast_locked(mark)) = mark
  /\ (mark_op.name = "set_fast_locked" /\ mark_prev \cap LockField = {0}) =>
       /\ mark \cap LockField = {}
       /\ mark \ LockField = mark_prev \ LockField
       /\ set_unlocked(mark) = mark_prev
  /\ (mark \cap LockField \in {{}, {0}}) => is_unlocked(set_unlocked(mark))
  /\ (mark_op.name = "set_unlocked" /\ mark_prev \cap LockField \in {{}, {0}}) =>
       is_unlocked(mark)

C20_Witness ==
  /\ mark_op.name = "set_fast_locked"
  /\ is_unlocked(mark_prev)
  /\ mark \cap LockField = {}
  /\ age(mark) = 5 /\ mark \cap SelfFwdField # {}
  /\ set_unlocked(mark) = mark_prev

(***************************************************************************)
(* SpecKlutWindow: registrations of Klass addresses over the whole         *)
(* encoding range, for every shift                                         *)
(***************************************************************************)
\* byte offsets from the base of the Klass addresses registered: the base
\* itself, the first aligned address after it, an unaligned address, the last
\* aligned address of the encoding range and the last byte of the range
WindowOffsets ==
  {Zero, nth_bit(MAX2(3, _shift)), Plus(nth_bit(MAX2(3, _shift)), FromNat(1)),
   Minus(EncodingRange(_shift), nth_bit(MAX2(3, _shift))),
   Minus(EncodingRange(_shift), FromNat(1))}
\* the Klass structures registered: one at each of the addresses, and a second
\* of another kind at the first aligned address; none at nullptr
WindowKlasses ==
  {k \in ({[addr |-> Plus(_base, o), kind |-> "InstanceKlassKind"] : o \in WindowOffsets}
            \cup {[addr |-> Plus(_base, nth_bit(MAX2(3, _shift))),
                   kind |-> "ObjArrayKlassKind"]}) :
     ~is_null(k.addr)}

\* the encoding is set up with any shift and the whole encoding range as the
\* Klass range; the table is not yet allocated
KlutWindowInit ==
  /\ CodecConfigInit
  /\ _range = EncodingRange(_shift)
  /\ _lowest_valid_narrow_klass_id = FromNat(1)
  /\ call = NoCall
  /\ _entries = <<>>
  /\ counter_registered = [kind \in KlassKinds |-> 0]
  /\ descriptors = <<>>
  /\ klut_op = NoKlutOp
  /\ registering = NoRegistration
  /\ FlagsIdle
  /\ MarkIdle

KlutWindowNext ==
  \/ Initialize
  \/ \E k \in WindowKlasses : RegisterKlass(k)

SpecKlutWindow == KlutWindowInit /\ [][KlutWindowNext]_vars

\* the table in which slot i alone was given the value e
OnlySlotWritten(i, e) ==
  [j \in DOMAIN _entries |-> IF j = i THEN e ELSE _entries[j]]
\* the narrowKlass of every Klass address of the encoding range is an index
\* of the table
IndexBelowCapacity ==
  \A k \in WindowKlasses : ToNat(encode(k.addr).val) < num_entries
\* every slot holds invalid_entry or the entry of a registered Klass whose
\* narrowKlass is the index of the slot
SlotsHoldOwnEntries ==
  \A i \in DOMAIN _entries :
     \/ _entries[i] = invalid_entry
     \/ \E a \in DOMAIN descriptors :
          /\ ToNat(encode(a).val) = i
          /\ _entries[i] = KlassLUTEntry([addr |-> a, kind |-> descriptors[a]])

\* C21: register_klass(k) writes the slot at index encode(k) and no other
\* slot; encode(k) is below the number of slots for every Klass address in
\* the encoding range; so after initialize() and any registrations every slot
\* holds invalid_entry or the entry of a Klass whose narrowKlass is the index
\* of the slot.
C21_FrameEffect ==
  /\ [](IndexBelowCapacity /\ SlotsHoldOwnEntries)
  /\ [][\A k \in WindowKlasses :
          RegisterKlass(k) =>
            /\ DOMAIN _entries = 0 .. (num_entries - 1)
            /\ _entries' = OnlySlotWritten(ToNat(encode(k.addr).val), KlassLUTEntry(k))]_vars

\* three registrations were made: the last filled the last slot of the table,
\* another slot holds the entry of an ObjArrayKlass, and a slot is still
\* invalid
C21_Witness ==
  /\ klut_op.op = "register_klass"
  /\ ToNat(klut_op.nk) = num_entries - 1
  /\ _entries[num_entries - 1] = [kind |-> "InstanceKlassKind"]
  /\ \E i \in 0 .. (num_entries - 2) : _entries[i] = [kind |-> "ObjArrayKlassKind"]
  /\ \E i \in 0 .. (num_entries - 2) : _entries[i] = invalid_entry
  /\ Registrations = MaxRegistrations

====
